---- MODULE Spec2Model ----
(***************************************************************************)
(* get_ip_by_mac.py: run the external ARP scanner over a subnet, parse its *)
(* standard output line by line and report the ip bound to a MAC address.  *)
(*                                                                         *)
(* Text is modelled as a sequence of one-character strings, so that the    *)
(* regular expression, str.split and str.upper are computed character by   *)
(* character.  The child's standard output is kept as the sequence of its  *)
(* lines (the text is those lines joined by line feeds).                   *)
(***************************************************************************)
EXTENDS Integers, Sequences, FiniteSets

VARIABLES
    subnet,      \* args.subnet
    mac,         \* args.mac
    pc,          \* position of the main program
    child,       \* the arp-scan child: "none", "running", "exited"
    argv,        \* the argument vector the child was started with
    spawns,      \* number of child processes started so far
    childOut,    \* lines the child has written to its standard output
    returncode,  \* the child's exit status (-1 until it has exited)
    results,     \* the local `results` of scan
    idx,         \* 1-based position of the for loop in `results`
    examined,    \* indices of `results` the loop body has looked at
    ret,         \* the value returned by scan
    exc,         \* the exception propagating out of scan ("" when none)
    stdout,      \* the characters the program wrote to standard output
    exitStatus   \* the exit status of the program (-1 while it runs)

vars == <<subnet, mac, pc, child, argv, spawns, childOut, returncode,
          results, idx, examined, ret, exc, stdout, exitStatus>>

----------------------------------------------------------------------------
(* Bounds of the model *)

\* greatest number of lines the child writes
MaxLines == 2
\* greatest number of tab-separated fields appended after the label
MaxExtra == 1

----------------------------------------------------------------------------
(* Characters and text *)

TAB == "\t"
NL == "\n"

ARP_SCAN == "arp-scan"

\* the class [0-9] of the pattern
Digits == {"0", "1", "2", "3", "4", "5", "6", "7", "8", "9"}

\* the class [0-9a-fA-F:] of the pattern
HexChars == Digits \cup {"a", "b", "c", "d", "e", "f"}
                   \cup {"A", "B", "C", "D", "E", "F"} \cup {":"}

LowerLetters == <<"a", "b", "c", "d", "e", "f", "g", "h", "i", "j", "k", "l", "m",
                  "n", "o", "p", "q", "r", "s", "t", "u", "v", "w", "x", "y", "z">>

UpperLetters == <<"A", "B", "C", "D", "E", "F", "G", "H", "I", "J", "K", "L", "M",
                  "N", "O", "P", "Q", "R", "S", "T", "U", "V", "W", "X", "Y", "Z">>

\* str.upper on one character
UpperChar(c) ==
    IF \E i \in 1..Len(LowerLetters) : LowerLetters[i] = c
    THEN UpperLetters[CHOOSE i \in 1..Len(LowerLetters) : LowerLetters[i] = c]
    ELSE c

\* str.upper
Upper(s) == [i \in 1..Len(s) |-> UpperChar(s[i])]

\* the character of s at position i, "" past the end
At(s, i) == IF i >= 1 /\ i <= Len(s) THEN s[i] ELSE ""

\* end of the longest run of characters of class cls that starts at i:
\* the first position >= i whose character is not in cls
RECURSIVE Run(_, _, _)
Run(s, i, cls) ==
    IF i <= Len(s) /\ s[i] \in cls THEN Run(s, i + 1, cls) ELSE i

\* pattern.match(line) for
\*   ^[0-9]+\.[0-9]+\.[0-9]+\.[0-9]+\t[0-9a-fA-F:]+\t.*$
\* Each class excludes the delimiter that follows it, so a match takes the
\* longest run of each group; "." matches any character but a line feed
\* and "$" matches at the end or before one final line feed.
PatternMatch(line) ==
    LET d1 == Run(line, 1, Digits)
        d2 == Run(line, d1 + 1, Digits)
        d3 == Run(line, d2 + 1, Digits)
        d4 == Run(line, d3 + 1, Digits)
        h  == Run(line, d4 + 1, HexChars)
    IN  /\ d1 > 1      /\ At(line, d1) = "."
        /\ d2 > d1 + 1 /\ At(line, d2) = "."
        /\ d3 > d2 + 1 /\ At(line, d3) = "."
        /\ d4 > d3 + 1 /\ At(line, d4) = TAB
        /\ h > d4 + 1  /\ At(line, h) = TAB
        /\ \A k \in (h + 1)..(Len(line) - 1) : line[k] # NL

\* line.split(sep): the fields between the occurrences of sep
RECURSIVE SplitFrom(_, _, _, _, _)
SplitFrom(s, sep, i, cur, acc) ==
    IF i > Len(s) THEN Append(acc, cur)
    ELSE IF s[i] = sep THEN SplitFrom(s, sep, i + 1, <<>>, Append(acc, cur))
    ELSE SplitFrom(s, sep, i + 1, Append(cur, s[i]), acc)

Split(s, sep) == SplitFrom(s, sep, 1, <<>>, <<>>)

\* `ip, line_mac, ssid = ...` succeeds only on exactly three values
UnpackOk(fields) == Len(fields) = 3

\* line_mac.upper() == mac.upper()
MacMatchesCaseSensitive(line_mac, m) == line_mac = m

MacMatches(line_mac, m) == Upper(line_mac) = Upper(m)

\* the field `return ip` hands back
ReturnedSsid(fields) == fields[3]

ReturnedField(fields) == fields[1]

None == [kind |-> "None", val |-> <<>>]

Str(s) == [kind |-> "str", val |-> s]

\* what one pass of the loop body does with a line: "skip" (next line),
\* "raise" (the unpacking fails) or "return"
LineStep(line, m) ==
    IF ~PatternMatch(line) THEN "skip"
    ELSE LET fields == Split(line, TAB)
         IN  IF ~UnpackOk(fields) THEN "raise"
             ELSE IF MacMatches(fields[2], m) THEN "return"
             ELSE "skip"

\* the for loop of scan from position i on, as a function of its inputs:
\* kind "str" (the returned ip), "None", or "ValueError"
RECURSIVE ScanFrom(_, _, _)
ScanFrom(lines, m, i) ==
    IF i > Len(lines) THEN None
    ELSE LET step == LineStep(lines[i], m)
         IN  IF step = "raise" THEN [kind |-> "ValueError", val |-> <<>>]
             ELSE IF step = "return" THEN Str(ReturnedField(Split(lines[i], TAB)))
             ELSE ScanFrom(lines, m, i + 1)

Scan(lines, m) == ScanFrom(lines, m, 1)

\* `if ip:` -- None and the empty string are false
Truthy(v) == v.kind = "str" /\ Len(v.val) > 0

NotFoundPrefix == <<"D", "i", "d", " ", "n", "o", "t", " ", "f", "i", "n", "d", " ",
                    "i", "p", " ", "f", "o", "r", " ">>

\* f"Did not find ip for {mac}"
NotFoundMessageNoMac(m) == NotFoundPrefix

NotFoundMessage(m) == NotFoundPrefix \o m

\* print(s): the text and a line feed
PrintLine(s) == Append(s, NL)

----------------------------------------------------------------------------
(* Inputs *)

Subnets == {"192.168.0.0/24", "10.0.0.0/8"}

IP1 == <<"1", ".", "1", ".", "1", ".", "1">>
IP2 == <<"1", "0", ".", "0", ".", "0", ".", "2">>

MACab == <<"a", ":", "B">>
MACAb == <<"A", ":", "b">>
MACb  == <<"b">>

\* the MAC addresses asked for
Queries == { <<"a", ":", "b">>, <<"B">>, <<"b", ":", "a">> }

Join2(a, b) == a \o <<TAB>> \o b
Join3(a, b, c) == a \o <<TAB>> \o b \o <<TAB>> \o c

RECURSIVE WithExtra(_, _)
WithExtra(line, n) == IF n = 0 THEN line ELSE WithExtra(line \o <<TAB, "x">>, n - 1)

\* rows of the ip<TAB>mac<TAB>label shape
RecordLines ==
    { Join3(IP1, MACab, <<"x">>), Join3(IP2, MACAb, <<"x">>),
      Join3(IP1, MACb, <<"x">>), Join3(IP2, MACb, <<"x">>),
      Join3(IP1, MACab, <<>>) }

\* blank, banner and malformed rows
JunkLines ==
    { <<>>,
      <<"I", "n", "t", ":", " ", "1">>,
      Join3(<<"1", ".", "1", ".", "1">>, MACab, <<"x">>),
      Join3(IP1, <<"g">>, <<"x">>),
      Join2(IP1, MACab),
      Join3(<<" ">> \o IP1, MACab, <<"x">>) }

\* rows whose trailing text holds further tab characters
ExtraLines ==
    { WithExtra(l, n) : l \in {Join3(IP1, MACab, <<"x">>), Join3(IP2, MACb, <<"x">>)},
                        n \in 1..MaxExtra }

Lines == JunkLines \cup RecordLines \cup ExtraLines

ExitCodes == {0, 1}

----------------------------------------------------------------------------
(* The program *)

Init ==
    /\ subnet \in Subnets
    /\ mac \in Queries
    /\ pc = "main"
    /\ child = "none"
    /\ argv = <<>>
    /\ spawns = 0
    /\ childOut = <<>>
    /\ returncode = -1
    /\ results = <<>>
    /\ idx = 0
    /\ examined = {}
    /\ ret = None
    /\ exc = ""
    /\ stdout = <<>>
    /\ exitStatus = -1

\* the argument vector of subprocess.run([ARP_SCAN, ip_net], ...)
ChildArgv(ip_net) == <<ARP_SCAN, ip_net>>

\* arp.scan(subnet, mac) calls subprocess.run, which starts the child
Spawn ==
    /\ pc = "main"
    /\ pc' = "run"
    /\ child' = "running"
    /\ argv' = ChildArgv(subnet)
    /\ spawns' = spawns + 1
    /\ UNCHANGED <<subnet, mac, childOut, returncode, results, idx, examined,
                   ret, exc, stdout, exitStatus>>

\* subprocess.run cannot start the executable: OSError (FileNotFoundError)
\* is raised in scan, which does not catch it
SpawnFail ==
    /\ pc = "main"
    /\ pc' = "raised"
    /\ exc' = "FileNotFoundError"
    /\ argv' = ChildArgv(subnet)
    /\ UNCHANGED <<subnet, mac, child, spawns, childOut, returncode, results,
                   idx, examined, ret, stdout, exitStatus>>

\* the child writes one more line to its standard output
ChildEmit ==
    /\ child = "running"
    /\ Len(childOut) < MaxLines
    /\ \E l \in Lines : childOut' = Append(childOut, l)
    /\ UNCHANGED <<subnet, mac, pc, child, argv, spawns, returncode, results,
                   idx, examined, ret, exc, stdout, exitStatus>>

\* the child exits, with any exit status
ChildExit ==
    /\ child = "running"
    /\ child' = "exited"
    /\ \E rc \in ExitCodes : returncode' = rc
    /\ UNCHANGED <<subnet, mac, pc, argv, spawns, childOut, results, idx,
                   examined, ret, exc, stdout, exitStatus>>

\* subprocess.run returns once the child has exited and its output is read
RunMayReturnEarly == child \in {"running", "exited"}

RunMayReturn == child = "exited"

\* results = subprocess.run(...).stdout.splitlines(); no check of returncode
RunReturns ==
    /\ pc = "run"
    /\ RunMayReturn
    /\ results' = childOut
    /\ idx' = 1
    /\ pc' = "loop"
    /\ UNCHANGED <<subnet, mac, child, argv, spawns, childOut, returncode,
                   examined, ret, exc, stdout, exitStatus>>

\* one pass of `for line in results:` that keeps going after a match
LoopStepNoStop ==
    /\ pc = "loop"
    /\ idx <= Len(results)
    /\ examined' = examined \cup {idx}
    /\ LET step == LineStep(results[idx], mac)
       IN  IF step = "raise"
           THEN /\ pc' = "raised"
                /\ exc' = "ValueError"
                /\ UNCHANGED <<idx, ret>>
           ELSE IF step = "return"
           THEN /\ ret' = Str(ReturnedField(Split(results[idx], TAB)))
                /\ pc' = IF idx = Len(results) THEN "returned" ELSE "loop"
                /\ idx' = IF idx = Len(results) THEN idx ELSE idx + 1
                /\ UNCHANGED exc
           ELSE /\ idx' = idx + 1
                /\ UNCHANGED <<pc, ret, exc>>
    /\ UNCHANGED <<subnet, mac, child, argv, spawns, childOut, returncode,
                   results, stdout, exitStatus>>

\* one pass of `for line in results:`
LoopStep ==
    /\ pc = "loop"
    /\ idx <= Len(results)
    /\ examined' = examined \cup {idx}
    /\ LET step == LineStep(results[idx], mac)
       IN  IF step = "raise"
           THEN /\ pc' = "raised"
                /\ exc' = "ValueError"
                /\ UNCHANGED <<idx, ret>>
           ELSE IF step = "return"
           THEN /\ pc' = "returned"
                /\ ret' = Str(ReturnedField(Split(results[idx], TAB)))
                /\ UNCHANGED <<idx, exc>>
           ELSE /\ idx' = idx + 1
                /\ UNCHANGED <<pc, ret, exc>>
    /\ UNCHANGED <<subnet, mac, child, argv, spawns, childOut, returncode,
                   results, stdout, exitStatus>>

\* the loop is exhausted: return None
LoopEnd ==
    /\ pc = "loop"
    /\ idx > Len(results)
    /\ pc' = "returned"
    /\ UNCHANGED <<subnet, mac, child, argv, spawns, childOut, returncode,
                   results, idx, examined, ret, exc, stdout, exitStatus>>

\* if ip: print(ip) else: print(f"Did not find ip for {mac}"); then the
\* interpreter exits with status 0
MainPrint ==
    /\ pc = "returned"
    /\ stdout' = stdout \o (IF Truthy(ret) THEN PrintLine(ret.val)
                            ELSE PrintLine(NotFoundMessage(mac)))
    /\ exitStatus' = 0
    /\ pc' = "exit"
    /\ UNCHANGED <<subnet, mac, child, argv, spawns, childOut, returncode,
                   results, idx, examined, ret, exc>>

\* an exception leaves scan and the main program: traceback on standard
\* error, nothing printed, exit status 1
Crash ==
    /\ pc = "raised"
    /\ exitStatus' = 1
    /\ pc' = "exit"
    /\ UNCHANGED <<subnet, mac, child, argv, spawns, childOut, returncode,
                   results, idx, examined, ret, exc, stdout>>

Next ==
    \/ Spawn
    \/ SpawnFail
    \/ ChildEmit
    \/ ChildExit
    \/ RunReturns
    \/ LoopStep
    \/ LoopEnd
    \/ MainPrint
    \/ Crash

Spec == Init /\ [][Next]_vars

----------------------------------------------------------------------------
(* Vocabulary of the properties *)

\* the two letters are the same up to case
SameLetter(c, d) ==
    \/ c = d
    \/ \E k \in 1..Len(LowerLetters) :
          {c, d} = {LowerLetters[k], UpperLetters[k]}

\* case-insensitive equality of two texts
EqIgnoreCase(s, t) ==
    /\ Len(s) = Len(t)
    /\ \A i \in 1..Len(s) : SameLetter(s[i], t[i])

\* both letter cases of a character
Forms(c) ==
    {c} \cup { LowerLetters[k] : k \in {j \in 1..Len(LowerLetters) : UpperLetters[j] = c} }
        \cup { UpperLetters[k] : k \in {j \in 1..Len(LowerLetters) : LowerLetters[j] = c} }

\* every letter-case variant of a text
RECURSIVE CaseVariants(_)
CaseVariants(s) ==
    IF s = <<>> THEN { <<>> }
    ELSE { <<c>> \o t : c \in Forms(Head(s)), t \in CaseVariants(Tail(s)) }

\* the fields joined by tabs
RECURSIVE JoinTabs(_)
JoinTabs(fields) ==
    IF Len(fields) = 1 THEN fields[1]
    ELSE fields[1] \o <<TAB>> \o JoinTabs(Tail(fields))

\* four dot-separated groups of digits
IsIPv4(f) ==
    LET g == Split(f, ".")
    IN  /\ Len(g) = 4
        /\ \A i \in 1..4 : Len(g[i]) > 0 /\ \A k \in 1..Len(g[i]) : g[i][k] \in Digits

\* colon-separated hexadecimal text
IsMacText(f) == Len(f) > 0 /\ \A k \in 1..Len(f) : f[k] \in HexChars

\* the three-field tab-separated IPv4/MAC/text shape
HasShape(line) ==
    LET f == Split(line, TAB)
    IN  Len(f) = 3 /\ IsIPv4(f[1]) /\ IsMacText(f[2])

\* a row ip<TAB>MAC<TAB>label whose MAC is the query up to case
RecordMatch(line, q) == HasShape(line) /\ EqIgnoreCase(Split(line, TAB)[2], q)

\* the second tab-separated field of the line is the query up to case
MacFieldMatch(line, q) ==
    LET f == Split(line, TAB) IN Len(f) >= 2 /\ EqIgnoreCase(f[2], q)

\* scan has come to its end, by a return or by an exception in the loop
ScanOver == pc \in {"returned", "raised"} /\ child = "exited"

\* what scan produced: the returned value, or the exception it raised
Outcome == IF exc = "" THEN ret ELSE [kind |-> exc, val |-> <<>>]

\* the program has completed without an exception
Completed == pc = "exit" /\ exc = ""

CountNL(s) == Cardinality({ k \in 1..Len(s) : s[k] = NL })

\* t occurs in s as a contiguous piece
Contains(s, t) ==
    \E k \in 0..(Len(s) - Len(t)) : \A i \in 1..Len(t) : s[k + i] = t[i]

FirstRecordMatch ==
    CHOOSE i \in 1..Len(results) :
        /\ RecordMatch(results[i], mac)
        /\ \A j \in 1..(i - 1) : ~RecordMatch(results[j], mac)

----------------------------------------------------------------------------
(* Properties *)

\* C1: whenever the scanner output holds a row ip<TAB>MAC<TAB>label whose
\* MAC equals the query case-insensitively, scan returns the ip of the
\* earliest such row.
C1_ReturnsEarliestMatch ==
    (ScanOver /\ \E i \in 1..Len(results) : RecordMatch(results[i], mac))
        => Outcome = Str(Split(results[FirstRecordMatch], TAB)[1])

\* C2: whenever no line of the scanner output has a MAC field equal to the
\* query case-insensitively, scan returns None and raises nothing.
C2_NoMatchReturnsNone ==
    (ScanOver /\ \A i \in 1..Len(results) : ~MacFieldMatch(results[i], mac))
        => (exc = "" /\ ret = None)

\* C3: a scanner that could not be started or that exited with a non-zero
\* status makes scan fail; it is never reported as None / not found.
C3_FailedScanIsFailure ==
    (pc \in {"returned", "raised", "exit"} /\ (spawns = 0 \/ returncode > 0))
        => exc # ""

\* C4: lines without the three-field IPv4/MAC/text shape are skipped: the
\* result is the one computed from the remaining lines, and no error is
\* raised.
C4_MalformedLinesSkipped ==
    ScanOver => (exc = "" /\ ret = Scan(SelectSeq(results, HasShape), mac))

\* C5: the MAC comparison is case-insensitive on both sides: a gated line
\* matches exactly when its MAC is the query up to case, and replacing the
\* query or the MAC field of any line by a letter-case variant leaves the
\* result of scan unchanged.
C5_CaseInsensitive ==
    ScanOver =>
        /\ \A i \in examined :
              LET f == Split(results[i], TAB)
                  step == LineStep(results[i], mac)
              IN  (PatternMatch(results[i]) /\ Len(f) = 3)
                      => (step = "return" <=> EqIgnoreCase(f[2], mac))
        /\ \A q \in CaseVariants(mac) : Scan(results, q) = Outcome
        /\ \A i \in 1..Len(results) :
              LET f == Split(results[i], TAB)
              IN  Len(f) >= 2 =>
                      \A v \in CaseVariants(f[2]) :
                          Scan([results EXCEPT ![i] = JoinTabs([f EXCEPT ![2] = v])], mac)
                              = Outcome

\* C5 witness: scan returned the ip of a line whose MAC differs from the
\* query in letter case.
C5_Witness ==
    /\ pc = "returned"
    /\ ret.kind = "str"
    /\ Split(results[idx], TAB)[2] # mac

C7_GatedLineHasThreeFields ==
    \A i \in examined :
        PatternMatch(results[i]) => Len(Split(results[i], TAB)) = 3

\* C8: scan starts exactly one child, with the subnet as its only argument,
\* and looks at no line before the child has exited and its whole output
\* has been read; no second child is started.
C8_OneChildThenParse ==
    /\ spawns <= 1
    /\ spawns = 1 => argv = <<ARP_SCAN, subnet>>
    /\ (pc \in {"loop", "returned"} \/ examined # {}) =>
          /\ spawns = 1
          /\ child = "exited"
          /\ results = childOut

\* C8 witness: the loop has looked at a line of a two-line output.
C8_Witness == examined # {} /\ Len(results) >= 2 /\ pc = "loop"

\* C9: scan stops at the first line whose MAC matches: no later line is
\* examined, and whatever follows that line, the returned ip is the same
\* and no error is raised.
C9_StopsAtFirstMatch ==
    (pc = "returned" /\ ret.kind = "str") =>
        /\ exc = ""
        /\ examined = 1..idx
        /\ LineStep(results[idx], mac) = "return"
        /\ \A j \in 1..(idx - 1) : LineStep(results[j], mac) = "skip"
        /\ Scan(SubSeq(results, 1, idx), mac) = ret
        /\ \A l \in Lines : Scan(Append(SubSeq(results, 1, idx), l), mac) = ret

\* C9 witness: scan returned at a line that is followed by a line on which
\* the unpacking would fail.
C9_Witness ==
    /\ pc = "returned"
    /\ ret.kind = "str"
    /\ idx < Len(results)
    /\ LineStep(results[idx + 1], mac) = "raise"

\* C10: a value returned by scan other than None is the first tab-separated
\* field of a gated line of the output, and is not empty; so the program
\* prints the ip exactly when a match was found, and the not-found message
\* exactly when scan returned None.
C10_ReturnedIpIsGatedField ==
    /\ (pc \in {"returned", "exit"} /\ ret # None) =>
          /\ ret.kind = "str"
          /\ Len(ret.val) > 0
          /\ \E i \in 1..Len(results) :
                /\ PatternMatch(results[i])
                /\ ret.val = Split(results[i], TAB)[1]
    /\ Completed =>
          /\ ret # None => stdout = ret.val \o <<NL>>
          /\ ret = None => stdout = NotFoundPrefix \o mac \o <<NL>>

\* C10 witness: a completed run that printed the ip scan returned.
C10_Witness == Completed /\ ret.kind = "str" /\ stdout = ret.val \o <<NL>>

====
